---- MODULE Spec2Model ----
(***************************************************************************)
(* State-machine model of src/src/element.rs: the Element handle around a  *)
(* native GstElement, its constructors, its Drop, the ElementT operations  *)
(* on position and speed, and the detached workers of seek_async.          *)
(*                                                                         *)
(* f64 rates are modelled by integers (only their sign and identity are    *)
(* read by the code); a percentage is a dyadic fraction num / den, for     *)
(* which the f64 product with a small duration is exact.  The native       *)
(* runtime answers nondeterministically within what the doc comments of    *)
(* the trait allow.                                                        *)
(***************************************************************************)
EXTENDS Integers, Sequences, FiniteSets, Bags, TLC

\* ------------------------------------------------------------ bounds
MaxPos == 2
MaxWorkers == 2

\* ------------------------------------------------------------ domains
Pos == 0..MaxPos
Rates == {-1, 0, 2}
Secs == {1}
\* Percentages n / d that an f64 holds exactly.
Pcts ==
    {[num |-> 0, den |-> 1], [num |-> 1, den |-> 4], [num |-> 1, den |-> 2],
     [num |-> 3, den |-> 4], [num |-> 1, den |-> 1]}

GST_STATE_VOID_PENDING == "VOID_PENDING"
GST_STATE_NULL == "NULL"
GST_STATE_READY == "READY"
GST_STATE_PAUSED == "PAUSED"
GST_STATE_PLAYING == "PLAYING"
GstState ==
    {GST_STATE_NULL, GST_STATE_READY, GST_STATE_PAUSED, GST_STATE_PLAYING}

GST_STATE_CHANGE_FAILURE == "FAILURE"
GST_STATE_CHANGE_SUCCESS == "SUCCESS"
GST_STATE_CHANGE_ASYNC == "ASYNC"
GST_STATE_CHANGE_NO_PREROLL == "NO_PREROLL"

\* Option<i64>
None == [some |-> FALSE, v |-> 0]
Some(x) == [some |-> TRUE, v |-> x]

VARIABLES
    hpc,          \* position of the handle: none, alive, drop_get_state, drop_unref, dropped
    kind,         \* how the handle was built: none, new, adopted
    speed,        \* Element.speed
    last_pos_ns,  \* Element.last_pos_ns
    refcount,     \* native reference count of the GstElement
    floating,     \* native floating flag of the GstElement
    nstate,       \* native current state
    npending,     \* native pending state
    truePos,      \* native playback position
    workers,      \* bag of the detached threads of seek_async still running
    spawned,      \* number of threads seek_async has spawned so far
    acct,         \* the references on the element before the handle was built,
                  \* and what the handle did to the element so far
    dropFrom,     \* native (state, pending) when drop started
    uaf,          \* a worker touched the element with no reference left
    seeked,       \* some gst_element_seek on the element has succeeded
    last,         \* the call of the owner thread made in the last step, and its return
    calls         \* the native calls that call made, in order

vars ==
    <<hpc, kind, speed, last_pos_ns, refcount, floating, nstate, npending,
      truePos, seeked, workers, spawned, acct, dropFrom, uaf, last, calls>>

handleVars == <<hpc, kind, speed, last_pos_ns>>
nativeState == <<nstate, npending>>
nativePos == <<truePos, seeked>>
ghostDrop == <<acct, dropFrom>>

\* ------------------------------------------------------------ records
Call(f, rate, start, stop, res) ==
    [f |-> f, rate |-> rate, start |-> start, stop |-> stop, res |-> res]
SeekCall(rate, start, stop, ok) ==
    Call("gst_element_seek", rate, start, stop,
         IF ok THEN Some(1) ELSE Some(0))
QueryPositionCall(r) == Call("gst_element_query_position", 0, 0, 0, r)
QueryDurationCall(r) == Call("gst_element_query_duration", 0, 0, 0, r)
SetStateCall(target, ret) ==
    Call("gst_element_set_state:" \o target \o ":" \o ret, 0, 0, 0, None)

Last(op, arg, ret, val) == [op |-> op, arg |-> arg, ret |-> ret, val |-> val]
Bool(b) == IF b THEN "true" ELSE "false"

\* A step that is no call of the owner thread leaves no call to report.
Quiet ==
    /\ last' = Last("-", 0, "unit", 0)
    /\ calls' = <<>>

threadVars == <<workers, spawned>>

\* A thread at statement pc of the closure seek_async spawned with
\* (rate, start, stop).
Worker(pc, rate, start, stop) ==
    [pc |-> pc, rate |-> rate, start |-> start, stop |-> stop]
One(w) == SetToBag({w})
InFlight == BagCardinality(workers)

\* ------------------------------------------------------------ native runtime
\* gst_object_ref_sink: a floating reference is taken over, otherwise the
\* count is incremented.
gst_object_ref_sink(rc, fl) ==
    IF fl THEN [rc |-> rc, fl |-> FALSE] ELSE [rc |-> rc + 1, fl |-> FALSE]

gst_object_ref(rc) == rc + 1

gst_object_unref(rc) == IF rc > 0 THEN rc - 1 ELSE 0

\* The returns gst_element_set_state may give for a target: changes to READY
\* or NULL never give ASYNC.
SetStateReturns(target) ==
    IF target \in {GST_STATE_NULL, GST_STATE_READY}
    THEN {GST_STATE_CHANGE_SUCCESS, GST_STATE_CHANGE_FAILURE}
    ELSE {GST_STATE_CHANGE_SUCCESS, GST_STATE_CHANGE_ASYNC,
          GST_STATE_CHANGE_FAILURE, GST_STATE_CHANGE_NO_PREROLL}

\* Native state after gst_element_set_state(target) returned ret.
gst_element_set_state(target, ret) ==
    /\ nstate' = IF ret \in {GST_STATE_CHANGE_SUCCESS, GST_STATE_CHANGE_NO_PREROLL}
                 THEN target ELSE nstate
    /\ npending' = IF ret = GST_STATE_CHANGE_ASYNC
                   THEN target ELSE GST_STATE_VOID_PENDING

\* Position the runtime plays from once a seek was accepted.
SeekTarget(rate, start, stop) == IF rate > 0 THEN start ELSE stop

gst_element_seek(rate, start, stop, ok) ==
    /\ truePos' = IF ok THEN SeekTarget(rate, start, stop) ELSE truePos
    /\ seeked' = (seeked \/ ok)

\* What a TIME position query may answer now.
QueryPositionResults == {None, Some(truePos)}

\* What a TIME duration query may answer now.
QueryDurationResults == {None} \cup {Some(d) : d \in 1..MaxPos}

\* ------------------------------------------------------------ Init
Init ==
    /\ hpc = "none"
    /\ kind = "none"
    /\ speed = 1
    /\ last_pos_ns = 0
    /\ refcount = 0
    /\ floating = FALSE
    /\ nstate = GST_STATE_NULL
    /\ npending = GST_STATE_VOID_PENDING
    /\ truePos = 0
    /\ seeked = FALSE
    /\ workers = EmptyBag
    /\ spawned = 0
    /\ acct = [before |-> 0, acq |-> 0, rel |-> 0, nullReq |-> 0, waits |-> 0]
    /\ dropFrom = <<"-", "-">>
    /\ uaf = FALSE
    /\ last = Last("init", 0, "unit", 0)
    /\ calls = <<>>

\* ------------------------------------------------------------ constructors
\* Element::new / factory_make: the factory gives a floating element or null.
ElementNew ==
    /\ hpc = "none"
    /\ \E made \in BOOLEAN :
         IF made
         THEN LET r == gst_object_ref_sink(1, TRUE) IN
              /\ refcount' = r.rc
              /\ floating' = r.fl
              /\ hpc' = "alive"
              /\ kind' = "new"
              /\ speed' = 1
              /\ last_pos_ns' = 0
              /\ acct' = [acct EXCEPT !.acq = @ + 1]
              /\ last' = Last("new", 0, "some", 0)
         ELSE /\ last' = Last("new", 0, "none", 0)
              /\ UNCHANGED <<refcount, floating, handleVars, acct>>
    /\ calls' = <<>>
    /\ UNCHANGED <<nativeState, nativePos, threadVars, dropFrom, uaf>>

\* Element::new_from_gst_element: wraps the pointer it is given, which the
\* caller got from elsewhere (floating or not, in any state), or null.
new_from_gst_element ==
    /\ hpc = "none"
    /\ \E null \in BOOLEAN, fl \in BOOLEAN, st \in GstState :
         IF ~null
         THEN /\ refcount' = 1
              /\ floating' = fl
              /\ nstate' = st
              /\ hpc' = "alive"
              /\ kind' = "adopted"
              /\ speed' = 1
              /\ last_pos_ns' = 0
              /\ acct' = [acct EXCEPT !.before = 1]
              /\ last' = Last("new_from_gst_element", 0, "some", 0)
         ELSE /\ last' = Last("new_from_gst_element", 0, "none", 0)
              /\ UNCHANGED <<refcount, floating, nstate, handleVars, acct>>
    /\ calls' = <<>>
    /\ UNCHANGED <<npending, nativePos, threadVars, dropFrom, uaf>>

\* ------------------------------------------------------------ Drop
\* A drop that forgets to request the NULL state.
drop_without_null ==
    /\ hpc = "alive"
    /\ hpc' = "drop_get_state"
    /\ dropFrom' = <<nstate, npending>>
    /\ last' = Last("drop", 0, "unit", 0)
    /\ calls' = <<>>
    /\ UNCHANGED <<kind, speed, last_pos_ns, refcount, floating, nativeState,
                   nativePos, threadVars, acct, uaf>>

\* drop, first statement: self.set_state(GST_STATE_NULL).
drop_set_state ==
    /\ hpc = "alive"
    /\ \E ret \in SetStateReturns(GST_STATE_NULL) :
         /\ gst_element_set_state(GST_STATE_NULL, ret)
         /\ calls' = <<SetStateCall(GST_STATE_NULL, ret)>>
    /\ hpc' = "drop_get_state"
    /\ acct' = [acct EXCEPT !.nullReq = @ + 1]
    /\ dropFrom' = <<nstate, npending>>
    /\ last' = Last("drop", 0, "unit", 0)
    /\ UNCHANGED <<kind, speed, last_pos_ns, refcount, floating, nativePos,
                   threadVars, uaf>>

\* drop, second statement: self.get_state(-1) blocks until no state change
\* is pending.
drop_get_state ==
    /\ hpc = "drop_get_state"
    /\ npending = GST_STATE_VOID_PENDING
    /\ hpc' = "drop_unref"
    /\ acct' = [acct EXCEPT !.waits = @ + 1]
    /\ UNCHANGED <<kind, speed, last_pos_ns, refcount, floating, nativeState,
                   nativePos, threadVars, dropFrom, uaf, last, calls>>

\* drop, third statement: gst_object_unref.
drop_unref ==
    /\ hpc = "drop_unref"
    /\ refcount' = gst_object_unref(refcount)
    /\ hpc' = "dropped"
    /\ acct' = [acct EXCEPT !.rel = @ + 1]
    /\ UNCHANGED <<kind, speed, last_pos_ns, floating, nativeState, nativePos,
                   threadVars, dropFrom, uaf, last, calls>>

\* ------------------------------------------------------------ seek_async
\* A seek_async that hands the raw pointer to the thread without a reference.
SpawnWithoutRef(rate, start, stop) ==
    /\ spawned < MaxWorkers
    /\ refcount' = refcount
    /\ workers' = workers (+) One(Worker("get_state", rate, start, stop))
    /\ spawned' = spawned + 1

\* The caller's part of seek_async: one more reference, one more thread.
Spawn(rate, start, stop) ==
    /\ spawned < MaxWorkers
    /\ refcount' = gst_object_ref(refcount)
    /\ workers' = workers (+) One(Worker("get_state", rate, start, stop))
    /\ spawned' = spawned + 1

\* A thread that waits for the state without a timeout.
worker_get_state_forever(w) ==
    /\ w.pc = "get_state"
    /\ npending = GST_STATE_VOID_PENDING
    /\ workers' = (workers (-) One(w)) (+) One([w EXCEPT !.pc = "seek"])
    /\ uaf' = (uaf \/ refcount = 0)
    /\ Quiet
    /\ UNCHANGED <<handleVars, refcount, floating, nativeState, nativePos,
                   spawned, ghostDrop>>

\* Thread body, first statement: gst_element_get_state with a timeout of one
\* second returns when the state settled or when the second is over.
worker_get_state(w) ==
    /\ w.pc = "get_state"
    /\ workers' = (workers (-) One(w)) (+) One([w EXCEPT !.pc = "seek"])
    /\ uaf' = (uaf \/ refcount = 0)
    /\ Quiet
    /\ UNCHANGED <<handleVars, refcount, floating, nativeState, nativePos,
                   spawned, ghostDrop>>

\* Thread body, second statement: gst_element_seek.
worker_seek(w) ==
    /\ w.pc = "seek"
    /\ \E ok \in BOOLEAN : gst_element_seek(w.rate, w.start, w.stop, ok)
    /\ workers' = (workers (-) One(w)) (+) One([w EXCEPT !.pc = "unref"])
    /\ uaf' = (uaf \/ refcount = 0)
    /\ Quiet
    /\ UNCHANGED <<handleVars, refcount, floating, nativeState, spawned,
                   ghostDrop>>

\* Thread body, third statement: gst_object_unref; the thread ends.
worker_unref(w) ==
    /\ w.pc = "unref"
    /\ refcount' = gst_object_unref(refcount)
    /\ workers' = workers (-) One(w)
    /\ uaf' = (uaf \/ refcount = 0)
    /\ Quiet
    /\ UNCHANGED <<handleVars, floating, nativeState, nativePos, spawned,
                   ghostDrop>>

\* ------------------------------------------------------------ owner thread
\* What an operation of the owner thread leaves alone unless it says otherwise.
OwnerFrame == UNCHANGED <<hpc, kind, floating, acct, dropFrom, uaf>>

\* set_state (and its shortcuts set_null_state, set_ready_state, pause, play).
set_state(target) ==
    /\ hpc = "alive"
    /\ \E ret \in SetStateReturns(target) :
         /\ gst_element_set_state(target, ret)
         /\ last' = Last("set_state", 0, ret, 0)
         /\ calls' = <<SetStateCall(target, ret)>>
    /\ OwnerFrame
    /\ UNCHANGED <<speed, last_pos_ns, refcount, nativePos, threadVars>>

\* position_ns: the live position, or the cached one.
position_ns ==
    /\ hpc = "alive"
    /\ \E q \in QueryPositionResults :
         /\ last' = Last("position_ns", 0, "value",
                         IF q.some THEN q.v ELSE last_pos_ns)
         /\ calls' = <<QueryPositionCall(q)>>
    /\ OwnerFrame
    /\ UNCHANGED <<speed, last_pos_ns, refcount, nativeState, nativePos, threadVars>>

\* Bounds that forget the reverse case.
SeekBoundsForwardOnly(rate, value) == [start |-> value, stop |-> -1]

\* The (start, stop) pair both set_position_ns and set_speed seek to.
SeekBounds(rate, value) ==
    IF rate > 0
    THEN [start |-> value, stop |-> -1]
    ELSE [start |-> 0, stop |-> value]

\* set_position_ns(ns), after the native calls pre its caller made.
SetPositionNs(op, arg, ns, pre) ==
    /\ \E ok \in BOOLEAN :
         LET b == SeekBounds(speed, ns) IN
         /\ gst_element_seek(speed, b.start, b.stop, ok)
         /\ last_pos_ns' = IF ok THEN ns ELSE last_pos_ns
         /\ last' = Last(op, arg, Bool(ok), 0)
         /\ calls' = pre \o <<SeekCall(speed, b.start, b.stop, ok)>>
    /\ OwnerFrame
    /\ UNCHANGED <<speed, refcount, nativeState, threadVars>>

set_position_ns(ns) ==
    /\ hpc = "alive"
    /\ SetPositionNs("set_position_ns", ns, ns, <<>>)

\* util::s_to_ns
NsPerS == 1000000000
s_to_ns(s) == s * NsPerS

set_position_s(s) ==
    /\ hpc = "alive"
    /\ SetPositionNs("set_position_s", s, s_to_ns(s), <<>>)

\* An f64 num / den cast with `as i64`: the fraction is dropped.
F64AsI64(num, den) ==
    IF num >= 0 THEN num \div den ELSE -((-num) \div den)

\* The product rounded to the nearest integer instead.
PctTargetRounded(t, pct) ==
    F64AsI64(2 * t * pct.num + pct.den, 2 * pct.den)

\* (t as f64 * pct) as i64.
PctTarget(t, pct) == F64AsI64(t * pct.num, pct.den)

\* An operation that failed before it changed anything.
FailedEarly(op, arg, made) ==
    /\ last' = Last(op, arg, "false", 0)
    /\ calls' = made
    /\ OwnerFrame
    /\ UNCHANGED <<speed, last_pos_ns, refcount, nativeState, nativePos, threadVars>>

set_position_pct(pct) ==
    /\ hpc = "alive"
    /\ \E d \in QueryDurationResults :
         IF d.some
         THEN SetPositionNs("set_position_pct", pct, PctTarget(d.v, pct),
                            <<QueryDurationCall(d)>>)
         ELSE FailedEarly("set_position_pct", pct, <<QueryDurationCall(d)>>)

\* A test that takes only SUCCESS for success.
StateChangeOkStrict(ret) == ret = GST_STATE_CHANGE_SUCCESS

\* The test of a set_state return that set_speed and set_speed_async make.
StateChangeOk(ret) == ret # GST_STATE_CHANGE_FAILURE

set_speed(r) ==
    /\ hpc = "alive"
    /\ IF r = 0
       THEN /\ speed' = r
            /\ \E ret \in SetStateReturns(GST_STATE_PAUSED) :
                 /\ gst_element_set_state(GST_STATE_PAUSED, ret)
                 /\ last' = Last("set_speed", r, Bool(StateChangeOk(ret)), 0)
                 /\ calls' = <<SetStateCall(GST_STATE_PAUSED, ret)>>
            /\ OwnerFrame
            /\ UNCHANGED <<last_pos_ns, refcount, nativePos, threadVars>>
       ELSE \E q \in QueryPositionResults :
              IF ~q.some
              THEN FailedEarly("set_speed", r, <<QueryPositionCall(q)>>)
              ELSE /\ \E ok \in BOOLEAN :
                        LET b == SeekBounds(r, q.v) IN
                        /\ gst_element_seek(r, b.start, b.stop, ok)
                        /\ speed' = IF ok THEN r ELSE speed
                        /\ last' = Last("set_speed", r, Bool(ok), 0)
                        /\ calls' = <<QueryPositionCall(q),
                                      SeekCall(r, b.start, b.stop, ok)>>
                   /\ OwnerFrame
                   /\ UNCHANGED <<last_pos_ns, refcount, nativeState, threadVars>>

\* seek_async called by the application itself.
seek_async(a) ==
    /\ hpc = "alive"
    /\ Spawn(a.rate, a.start, a.stop)
    /\ last' = Last("seek_async", 0, "unit", 0)
    /\ calls' = <<>>
    /\ OwnerFrame
    /\ UNCHANGED <<speed, last_pos_ns, nativeState, nativePos>>

\* A set_position_ns_async that leaves the cached position to the seek.
SetPositionNsAsyncKeepCache(op, arg, ns, ret, pre) ==
    /\ LET b == SeekBounds(speed, ns) IN Spawn(speed, b.start, b.stop)
    /\ last' = Last(op, arg, ret, 0)
    /\ calls' = pre
    /\ OwnerFrame
    /\ UNCHANGED <<speed, last_pos_ns, nativeState, nativePos>>

\* set_position_ns_async(ns), after the native calls pre its caller made.
SetPositionNsAsync(op, arg, ns, ret, pre) ==
    /\ LET b == SeekBounds(speed, ns) IN Spawn(speed, b.start, b.stop)
    /\ last_pos_ns' = ns
    /\ last' = Last(op, arg, ret, 0)
    /\ calls' = pre
    /\ OwnerFrame
    /\ UNCHANGED <<speed, nativeState, nativePos>>

set_position_ns_async(ns) ==
    /\ hpc = "alive"
    /\ SetPositionNsAsync("set_position_ns_async", ns, ns, "unit", <<>>)

set_position_s_async(s) ==
    /\ hpc = "alive"
    /\ SetPositionNsAsync("set_position_s_async", s, s_to_ns(s), "unit", <<>>)

\* A set_position_pct_async that seeks to 0 when the duration is unknown,
\* and still reports the failure.
set_position_pct_async_or_zero(pct) ==
    /\ hpc = "alive"
    /\ \E d \in QueryDurationResults :
         SetPositionNsAsync("set_position_pct_async", pct,
                            IF d.some THEN PctTarget(d.v, pct) ELSE 0,
                            Bool(d.some), <<QueryDurationCall(d)>>)

set_position_pct_async(pct) ==
    /\ hpc = "alive"
    /\ \E d \in QueryDurationResults :
         IF d.some
         THEN SetPositionNsAsync("set_position_pct_async", pct,
                                 PctTarget(d.v, pct), "true",
                                 <<QueryDurationCall(d)>>)
         ELSE FailedEarly("set_position_pct_async", pct,
                          <<QueryDurationCall(d)>>)

set_speed_async(r) ==
    /\ hpc = "alive"
    /\ speed' = r
    /\ IF r = 0
       THEN /\ \E ret \in SetStateReturns(GST_STATE_PAUSED) :
                 /\ gst_element_set_state(GST_STATE_PAUSED, ret)
                 /\ last' = Last("set_speed_async", r, Bool(StateChangeOk(ret)), 0)
                 /\ calls' = <<SetStateCall(GST_STATE_PAUSED, ret)>>
            /\ OwnerFrame
            /\ UNCHANGED <<last_pos_ns, refcount, nativePos, threadVars>>
       ELSE \E q \in QueryPositionResults :
              IF ~q.some
              THEN /\ last' = Last("set_speed_async", r, "false", 0)
                   /\ calls' = <<QueryPositionCall(q)>>
                   /\ OwnerFrame
                   /\ UNCHANGED <<last_pos_ns, refcount, nativeState, nativePos,
                                  threadVars>>
              ELSE /\ LET b == SeekBounds(r, q.v) IN Spawn(r, b.start, b.stop)
                   /\ last' = Last("set_speed_async", r, "true", 0)
                   /\ calls' = <<QueryPositionCall(q)>>
                   /\ OwnerFrame
                   /\ UNCHANGED <<last_pos_ns, nativeState, nativePos>>

\* ------------------------------------------------------------ runtime threads
\* A pending asynchronous state change completes or fails.
NativeAsyncDone ==
    /\ refcount > 0
    /\ npending # GST_STATE_VOID_PENDING
    /\ \E ok \in BOOLEAN : nstate' = IF ok THEN npending ELSE nstate
    /\ npending' = GST_STATE_VOID_PENDING
    /\ Quiet
    /\ UNCHANGED <<handleVars, refcount, floating, nativePos, threadVars, ghostDrop, uaf>>

\* Playback moves the position while the element is PLAYING.
NativePlay ==
    /\ refcount > 0
    /\ nstate = GST_STATE_PLAYING
    /\ \E p \in Pos :
         /\ p - truePos \in {-1, 1}
         /\ truePos' = p
    /\ Quiet
    /\ UNCHANGED <<handleVars, refcount, floating, nativeState, seeked, threadVars,
                   ghostDrop, uaf>>

\* ------------------------------------------------------------ specifications
\* Lifetime of a handle: both constructors, state changes, seek_async and
\* its workers, drop.
LifeSeekArgs == {[rate |-> 1, start |-> 1, stop |-> -1]}

NextLife ==
    \/ ElementNew
    \/ new_from_gst_element
    \/ drop_set_state
    \/ drop_get_state
    \/ drop_unref
    \/ \E t \in GstState : set_state(t)
    \/ \E a \in LifeSeekArgs : seek_async(a)
    \/ \E w \in BagToSet(workers) : worker_get_state(w)
    \/ \E w \in BagToSet(workers) : worker_seek(w)
    \/ \E w \in BagToSet(workers) : worker_unref(w)
    \/ NativeAsyncDone

SpecLife == Init /\ [][NextLife]_vars

\* A spawned thread is scheduled like any other thread of the process, and
\* each of its three native calls returns (the state wait after one second
\* at the latest): a thread that can take its next statement does.
WorkerStep ==
    \E w \in BagToSet(workers) :
        worker_get_state(w) \/ worker_seek(w) \/ worker_unref(w)

SpecLifeFair == Init /\ [][NextLife]_vars /\ WF_vars(WorkerStep)

\* The synchronous position and speed operations of a handle.
NextSync ==
    \/ ElementNew
    \/ set_state(GST_STATE_PLAYING)
    \/ position_ns
    \/ \E ns \in Pos : set_position_ns(ns)
    \/ \E s \in Secs : set_position_s(s)
    \/ \E pct \in Pcts : set_position_pct(pct)
    \/ \E r \in Rates : set_speed(r)
    \/ NativePlay

SpecSync == Init /\ [][NextSync]_vars

\* The asynchronous operations of a handle and their workers.
AsyncPos == {1}
AsyncPcts == {[num |-> 1, den |-> 2]}
AsyncRates == {-1, 0}

NextAsync ==
    \/ ElementNew
    \/ position_ns
    \/ \E a \in LifeSeekArgs : seek_async(a)
    \/ \E ns \in AsyncPos : set_position_ns_async(ns)
    \/ \E s \in Secs : set_position_s_async(s)
    \/ \E pct \in AsyncPcts : set_position_pct_async(pct)
    \/ \E r \in AsyncRates : set_speed_async(r)
    \/ \E w \in BagToSet(workers) : worker_get_state(w)
    \/ \E w \in BagToSet(workers) : worker_seek(w)
    \/ \E w \in BagToSet(workers) : worker_unref(w)

SpecAsync == Init /\ [][NextAsync]_vars

\* Two asynchronous seeks issued one after the other by the owner thread:
\* call A to the first target (by set_position_ns_async, or by seek_async
\* itself), then call B, set_position_ns_async to the second; the owner may
\* read the position and drop the handle meanwhile.
RaceTargets == <<1, 2>>
RaceA == RaceTargets[1]
RaceB == RaceTargets[2]

NextRace ==
    \/ ElementNew
    \/ spawned = 0 /\ set_position_ns_async(RaceA)
    \/ spawned = 0 /\ seek_async([rate |-> 1, start |-> RaceA, stop |-> -1])
    \/ spawned = 1 /\ set_position_ns_async(RaceB)
    \/ position_ns
    \/ drop_set_state
    \/ drop_get_state
    \/ drop_unref
    \/ \E w \in BagToSet(workers) : worker_get_state(w)
    \/ \E w \in BagToSet(workers) : worker_seek(w)
    \/ \E w \in BagToSet(workers) : worker_unref(w)

SpecRace == Init /\ [][NextRace]_vars

\* ------------------------------------------------------------ claims
\* C1: every handle, built by Element::new or by new_from_gst_element, takes
\* its reference when it is built and gives it back exactly once when it is
\* dropped: its acquires and releases balance, and once it is dropped and no
\* worker runs the reference count is what it was before the handle was built.
C1_AcquireReleaseBalance ==
    /\ hpc # "none" => acct.acq = 1
    /\ hpc = "dropped" => acct.rel = 1 /\ acct.acq = acct.rel
    /\ hpc = "dropped" /\ workers = EmptyBag => refcount = acct.before

\* C2: drop requests the NULL state exactly once, waits until no state change
\* is pending, and only then releases the handle's reference, exactly once,
\* whatever state the element was in when the drop started.
C2_DropNullThenRelease ==
    /\ acct.nullReq <= 1 /\ acct.waits <= 1 /\ acct.rel <= 1
    /\ hpc \in {"none", "alive"} => acct.nullReq = 0 /\ acct.rel = 0
    /\ hpc = "drop_get_state" => acct.nullReq = 1 /\ acct.waits = 0 /\ acct.rel = 0
    /\ hpc = "drop_unref" =>
         /\ acct.nullReq = 1 /\ acct.waits = 1 /\ acct.rel = 0
         /\ npending = GST_STATE_VOID_PENDING
    /\ hpc = "dropped" => acct.nullReq = 1 /\ acct.waits = 1 /\ acct.rel = 1

\* A handle dropped while a state change of its element was still pending.
C2_Witness ==
    /\ hpc = "dropped"
    /\ dropFrom[1] = GST_STATE_PAUSED
    /\ dropFrom[2] = GST_STATE_PLAYING

\* C3: whenever a worker of seek_async touches the element (state wait, seek,
\* its own release) the element still has a reference: the count is never
\* below the number of workers running, however the owner's drop interleaves.
C3_WorkerHoldsReference ==
    /\ ~uaf
    /\ refcount >= InFlight

\* The handle is dropped while two workers have not yet touched the element.
C3_Witness ==
    /\ hpc = "dropped"
    /\ InFlight = 2
    /\ \A w \in BagToSet(workers) : w.pc = "get_state"

\* A successful gst_element_seek among the native calls cs.
SeekSucceededIn(cs) ==
    \E i \in 1..Len(cs) : cs[i].f = "gst_element_seek" /\ cs[i].res = Some(1)

SeeksIn(cs) == {i \in 1..Len(cs) : cs[i].f = "gst_element_seek"}

\* C4: position_ns returns the live position when the query answers and the
\* cached position otherwise, and the cached position of a handle is 0 as
\* long as no seek has succeeded.
C4_PositionNsFallback ==
    /\ last.op = "position_ns" =>
         /\ last.ret = "value"
         /\ last.val = IF calls[1].res.some THEN calls[1].res.v ELSE last_pos_ns
    /\ hpc = "alive" /\ ~seeked => last_pos_ns = 0

\* C5: the cached position changes only in a step that is a position
\* operation whose seek succeeded.
C5_CacheOnlyOnSuccess ==
    [][last_pos_ns' # last_pos_ns =>
         /\ last'.op \in {"set_position_ns", "set_position_s", "set_position_pct",
                          "set_position_ns_async", "set_position_s_async",
                          "set_position_pct_async"}
         /\ SeekSucceededIn(calls')]_vars

\* C6: with a known duration D, set_position_pct(p) issues the one seek that
\* set_position_ns(floor(D * p)) issues at the cached speed, returns what the
\* seek returned and on success caches floor(D * p); with an unknown duration
\* it returns false, issues no seek and leaves the cached position as it was.
\* A position_ns whose live query fails returns the cached position.
C6_PctComposesDurationAndSeek ==
    [][/\ (last'.op = "set_position_pct" =>
         LET d == calls'[1].res
             p == last'.arg
             target == (d.v * p.num) \div p.den
         IN  /\ calls'[1].f = "gst_element_query_duration"
             /\ speed' = speed
             /\ IF d.some
                THEN /\ Len(calls') = 2
                     /\ calls'[2].f = "gst_element_seek"
                     /\ calls'[2].rate = speed
                     /\ calls'[2].start = (IF speed > 0 THEN target ELSE 0)
                     /\ calls'[2].stop = (IF speed > 0 THEN -1 ELSE target)
                     /\ last'.ret = Bool(calls'[2].res = Some(1))
                     /\ last_pos_ns' = IF last'.ret = "true"
                                       THEN target ELSE last_pos_ns
                ELSE /\ Len(calls') = 1
                     /\ last'.ret = "false"
                     /\ last_pos_ns' = last_pos_ns
                     /\ truePos' = truePos)
       /\ (last'.op = "position_ns" /\ ~calls'[1].res.some =>
              last'.val = last_pos_ns)]_vars

\* set_position_pct(0.75) succeeded on a duration of 2: the product 1.5 was
\* cut to 1, which is now the cached position.
C6_Witness ==
    /\ last.op = "set_position_pct"
    /\ last.arg = [num |-> 3, den |-> 4]
    /\ calls[1].res = Some(2)
    /\ last.ret = "true"
    /\ last_pos_ns = 1

\* C7: set_speed(0.0) makes one native call, the request of PAUSED, and
\* returns true unless that returned FAILURE; set_speed(r), r # 0, queries
\* the position before it seeks, and when the query fails it returns false
\* with no seek issued and the cached speed as it was.
C7_SetSpeedPaths ==
    [][last'.op = "set_speed" =>
         IF last'.arg = 0
         THEN /\ Len(calls') = 1
              /\ \E ret \in SetStateReturns(GST_STATE_PAUSED) :
                   /\ calls'[1] = SetStateCall(GST_STATE_PAUSED, ret)
                   /\ last'.ret = "true" <=> ret # GST_STATE_CHANGE_FAILURE
              /\ nstate' \in {nstate, GST_STATE_PAUSED}
              /\ truePos' = truePos
         ELSE /\ Len(calls') >= 1
              /\ calls'[1].f = "gst_element_query_position"
              /\ \A i \in SeeksIn(calls') : i > 1
              /\ ~calls'[1].res.some =>
                   /\ Len(calls') = 1
                   /\ last'.ret = "false"
                   /\ speed' = speed]_vars

\* After a set_speed(0.0), set_speed(-1.0) has failed on the position query
\* and the cached speed is still 0.
C7_Witness ==
    /\ last.op = "set_speed"
    /\ last.arg = -1
    /\ last.ret = "false"
    /\ Len(calls) = 1
    /\ speed = 0

\* C8: set_speed(r) that returns false leaves speed() as it was, and one
\* that returns true leaves speed() = r, for every r, 0.0 included.
C8_SpeedOnlyOnSuccess ==
    [][last'.op = "set_speed" =>
         /\ last'.ret = "false" => speed' = speed
         /\ last'.ret = "true" => speed' = last'.arg]_vars

\* C9: every seek of set_position_ns(v) and of set_speed(r) goes from value
\* to the open end when its rate is > 0 and from 0 to value otherwise, value
\* being v (rate: the cached speed) or the queried position (rate: r).
C9_SeekBoundsByDirection ==
    /\ last.op \in {"set_position_ns", "set_speed"} =>
         \A i \in SeeksIn(calls) :
            LET c == calls[i]
                value == IF last.op = "set_speed" THEN calls[1].res.v ELSE last.arg
            IN  /\ c.rate = (IF last.op = "set_speed" THEN last.arg ELSE speed)
                /\ c.rate > 0 => c.start = value /\ c.stop = -1
                /\ c.rate <= 0 => c.start = 0 /\ c.stop = value
    /\ last.op = "set_position_ns" => Len(calls) = 1 /\ SeeksIn(calls) = {1}
    /\ last.op = "set_speed" => Cardinality(SeeksIn(calls)) <= 1

\* set_position_ns(2) has seeked from 0 to 2 at a reverse speed.
C9_Witness ==
    /\ last.op = "set_position_ns"
    /\ last.arg = 2
    /\ speed = -1
    /\ calls[1].start = 0
    /\ calls[1].stop = 2

AsyncOps ==
    {"seek_async", "set_position_ns_async", "set_position_s_async",
     "set_position_pct_async", "set_speed_async"}

\* C10 as stated: of the async variants only set_position_pct_async returns
\* false to its caller.
C10_OnlyPctAsyncFails ==
    last.op \in AsyncOps /\ last.ret = "false" => last.op = "set_position_pct_async"

\* C10, amended: of the async variants only set_position_pct_async and
\* set_speed_async return false to their caller; set_position_pct_async does
\* so exactly when the duration is unknown, set_speed_async exactly when the
\* position query fails (rate # 0) or the PAUSED request returns FAILURE
\* (rate = 0); a call that returned false has spawned no thread, issued no
\* seek and taken no reference, and every other async call has spawned one
\* thread and taken one reference.
C10_AsyncFailures ==
    [][last'.op \in AsyncOps =>
         /\ last'.ret = "false" =>
              /\ last'.op \in {"set_position_pct_async", "set_speed_async"}
              /\ workers' = workers
              /\ spawned' = spawned
              /\ refcount' = refcount
              /\ SeeksIn(calls') = {}
              /\ truePos' = truePos
         /\ last'.op = "set_position_pct_async" =>
              /\ last'.ret \in {"true", "false"}
              /\ last'.ret = "false" <=> ~calls'[1].res.some
              /\ last'.ret = "false" => last_pos_ns' = last_pos_ns
         /\ last'.op = "set_speed_async" =>
              /\ last'.ret \in {"true", "false"}
              /\ last'.ret = "false" <=>
                   IF last'.arg = 0
                   THEN calls'[1] = SetStateCall(GST_STATE_PAUSED,
                                                 GST_STATE_CHANGE_FAILURE)
                   ELSE ~calls'[1].res.some
         /\ last'.op \in {"seek_async", "set_position_ns_async",
                          "set_position_s_async"} => last'.ret = "unit"
         /\ last'.ret # "false" /\ ~(last'.op = "set_speed_async" /\ last'.arg = 0) =>
              /\ spawned' = spawned + 1
              /\ refcount' = refcount + 1
              /\ BagCardinality(workers') = BagCardinality(workers) + 1]_vars

\* set_position_pct_async has returned false while an earlier worker runs.
C10_Witness ==
    /\ last.op = "set_position_pct_async"
    /\ last.ret = "false"
    /\ ~calls[1].res.some
    /\ InFlight = 1

\* The reference the handle itself holds on the element.
HandleHold == IF hpc \in {"none", "dropped"} THEN 0 ELSE 1

\* The only ways the bag of threads changes: a thread is spawned at the state
\* wait with one more reference; a thread goes from the state wait to the
\* seek; from the seek (which moves the position to its target or not at all)
\* to the release; from the release, with one reference less, to its end.
WorkerOrder ==
    workers' # workers =>
      \/ /\ spawned' = spawned + 1
         /\ refcount' = refcount + 1
         /\ \E w \in BagToSet(workers') :
              /\ w.pc = "get_state"
              /\ workers' = workers (+) One(w)
      \/ /\ spawned' = spawned
         /\ \E w \in BagToSet(workers) :
              \/ /\ w.pc = "get_state"
                 /\ workers' = (workers (-) One(w)) (+) One([w EXCEPT !.pc = "seek"])
                 /\ refcount' = refcount
                 /\ truePos' = truePos
              \/ /\ w.pc = "seek"
                 /\ workers' = (workers (-) One(w)) (+) One([w EXCEPT !.pc = "unref"])
                 /\ refcount' = refcount
                 /\ truePos' \in {truePos, SeekTarget(w.rate, w.start, w.stop)}
              \/ /\ w.pc = "unref"
                 /\ workers' = workers (-) One(w)
                 /\ refcount' = refcount - 1
                 /\ truePos' = truePos

\* C11: a thread of seek_async does the state wait, then the seek, then the
\* release of its reference, each once; the references the threads took and
\* have not given back are those of the threads still running; and under
\* fair scheduling every thread spawned reaches its end, so the releases
\* catch up with the acquires, whether the handle is dropped or not.
C11_WorkersRunToCompletion ==
    /\ [][WorkerOrder]_vars
    /\ [](refcount = HandleHold + InFlight)
    /\ [](\A w \in BagToSet(workers) : w.pc \in {"get_state", "seek", "unref"})
    /\ \A k \in 1..MaxWorkers : (spawned >= k) ~> (spawned - InFlight >= k)
    /\ <>[](InFlight = 0)

\* Two threads were spawned and both have ended after the handle was dropped
\* during a pending state change: no reference is left.
C11_Witness ==
    /\ hpc = "dropped"
    /\ dropFrom[2] # GST_STATE_VOID_PENDING
    /\ spawned = 2
    /\ InFlight = 0
    /\ refcount = 0

\* The thread of the call to target t has not yet made its seek.
SeekAhead(t) ==
    \E w \in BagToSet(workers) :
        /\ w = Worker(w.pc, 1, t, -1)
        /\ w.pc \in {"get_state", "seek"}

C12_InOrder ==
    /\ spawned = 2
    /\ workers = One(Worker("seek", 1, RaceB, -1))
    /\ truePos = RaceA
    /\ last_pos_ns = RaceB

\* Both threads have ended and the position is A's target, the cache B's.
C12_EndsAtA ==
    /\ spawned = 2 /\ InFlight = 0
    /\ truePos = RaceA
    /\ last_pos_ns = RaceB

\* Both threads have ended and the position is B's target, as is the cache.
C12_EndsAtB ==
    /\ spawned = 2 /\ InFlight = 0
    /\ truePos = RaceB
    /\ last_pos_ns = RaceB

====
